---------------------------- MODULE Spec2Model ----------------------------
(***************************************************************************)
(* A model of bokeh/util/serialization.py: the array / column-data codec   *)
(* (transform_array, serialize_array, transform_array_to_list,             *)
(* encode_base64_dict, decode_base64_dict, traverse_data,                  *)
(* transform_column_source_data, decode_column_data) and the id allocator  *)
(* make_id.                                                                *)
(*                                                                         *)
(* Python objects are records tagged by the field k.  Every kind of object *)
(* uses its own field names, so that two objects of different kinds are    *)
(* always comparable.  An ndarray is its dtype name, its shape, its memory *)
(* order and its raw buffer (a sequence of bytes 0..255, little endian),   *)
(* exactly what numpy keeps; element values are read out of the bytes.     *)
(***************************************************************************)
EXTENDS Integers, Sequences, FiniteSets, TLC

VARIABLES
    use_binary_arrays,    \* settings.use_binary_arrays()
    binary_array_cutoff,  \* settings.binary_array_cutoff()
    simple_ids,           \* settings.simple_ids(False)
    arg,                  \* the object handed to the operation (the caller's object)
    force_list,           \* the force_list argument
    numpy_flag,           \* the use_numpy argument of traverse_data
    op,                   \* the operations that have run, in order
    result,               \* what the operation returned (or the exception it raised)
    result2,              \* what the follow-up decode returned
    _simple_id,           \* the module global _simple_id
    pc,                   \* per thread: position inside make_id
    tmp,                  \* per thread: the value loaded by  _simple_id += 1
    new_id,               \* per thread: the local new_id
    calls,                \* per thread: number of make_id calls started
    returned              \* the sequence of IDs returned so far, in return order

vars == << use_binary_arrays, binary_array_cutoff, simple_ids, arg, force_list, numpy_flag,
           op, result, result2, _simple_id, pc, tmp, new_id, calls, returned >>

codecVars == << use_binary_arrays, binary_array_cutoff, arg, force_list, numpy_flag,
                op, result, result2 >>
idVars == << simple_ids, _simple_id, pc, tmp, new_id, calls, returned >>

-----------------------------------------------------------------------------
(* Bounds of the model *)

\* largest length of a generated one-dimensional array
MaxLen == 3
\* number of make_id calls each thread makes
MaxCalls == 2
\* number of threads calling make_id
NumThreads == 2
\* extra levels of list nesting wrapped around a generated nested structure
MaxWrap == 1
\* largest number of payload bytes of a hand-made envelope
MaxPayload == 5

-----------------------------------------------------------------------------
(* Python objects *)

PyNone == [k |-> "none"]
PyFloat(b) == [k |-> "float", fbits |-> b]
PyInt(n) == [k |-> "int", ival |-> n]
PyBool(b) == [k |-> "bool", bval |-> b]
PyStr(s) == [k |-> "str", sval |-> s]
PyList(xs) == [k |-> "list", items |-> xs]
PyTuple(xs) == [k |-> "tuple", titems |-> xs]
PyDict(d) == [k |-> "dict", entries |-> d]
Raise(e) == [k |-> "raise", exc |-> e]
NdArray(dt, sh, ord, buf) ==
    [k |-> "ndarray", dtype |-> dt, shape |-> sh, order |-> ord, data |-> buf,
     masked |-> FALSE, mask |-> << >>]
MaskedArray(dt, sh, ord, buf, m) ==
    [k |-> "ndarray", dtype |-> dt, shape |-> sh, order |-> ord, data |-> buf,
     masked |-> TRUE, mask |-> m]

IsRaise(x) == x.k = "raise"
IsArray(x) == x.k = "ndarray"
IsSeq(x) == x.k \in {"list", "tuple"}
Items(x) == IF x.k = "list" THEN x.items ELSE x.titems

-----------------------------------------------------------------------------
(* Sequence helpers *)

RECURSIVE Flatten(_)
Flatten(ss) == IF ss = << >> THEN << >> ELSE Head(ss) \o Flatten(Tail(ss))

RECURSIVE Prod(_)
Prod(sh) == IF sh = << >> THEN 1 ELSE Head(sh) * Prod(Tail(sh))

AnyTrue(bs) == \E i \in DOMAIN bs : bs[i]

-----------------------------------------------------------------------------
(* dtypes *)

\* the binary whitelist
array_types ==
    {"float32", "float64", "uint8", "int8", "uint16", "int16", "uint32", "int32"}

\* dtype.kind
Kind(dt) ==
    CASE dt \in {"float16", "float32", "float64"} -> "f"
      [] dt \in {"uint8", "uint16", "uint32", "uint64"} -> "u"
      [] dt \in {"int8", "int16", "int32", "int64"} -> "i"
      [] dt = "bool" -> "b"
      [] dt = "datetime64[ms]" -> "M"
      [] dt = "timedelta64[ms]" -> "m"
      [] OTHER -> "O"

\* dtype.itemsize, in bytes
ItemSize(dt) ==
    CASE dt \in {"uint8", "int8", "bool"} -> 1
      [] dt \in {"uint16", "int16", "float16"} -> 2
      [] dt \in {"uint32", "int32", "float32"} -> 4
      [] OTHER -> 8

\* np.dtype(name) succeeds
KnownDtype(dt) ==
    dt \in array_types \cup {"float16", "int64", "uint64", "bool",
                             "datetime64[ms]", "timedelta64[ms]"}

-----------------------------------------------------------------------------
(* IEEE-754 and two's complement, read from little-endian bytes *)

Pow2(n) == 2 ^ n

\* biased exponent field, "all ones" exponent, mantissa-not-zero, sign bit
FExp(dt, e) ==
    IF dt = "float64" THEN (e[8] % 128) * 16 + (e[7] \div 16)
    ELSE (e[4] % 128) * 2 + (e[3] \div 128)
FExpMax(dt) == IF dt = "float64" THEN 2047 ELSE 255
FMantNonZero(dt, e) ==
    IF dt = "float64"
    THEN (e[7] % 16 # 0) \/ (\E i \in 1..6 : e[i] # 0)
    ELSE (e[3] % 128 # 0) \/ e[1] # 0 \/ e[2] # 0
FSign(dt, e) == e[ItemSize(dt)] \div 128

\* np.isnan, np.isposinf, np.isneginf, np.isfinite on one element
isnan(dt, e) == Kind(dt) = "f" /\ FExp(dt, e) = FExpMax(dt) /\ FMantNonZero(dt, e)
isposinf(dt, e) ==
    Kind(dt) = "f" /\ FExp(dt, e) = FExpMax(dt) /\ ~FMantNonZero(dt, e) /\ FSign(dt, e) = 0
isneginf(dt, e) ==
    Kind(dt) = "f" /\ FExp(dt, e) = FExpMax(dt) /\ ~FMantNonZero(dt, e) /\ FSign(dt, e) = 1
isfinite(dt, e) == ~(Kind(dt) = "f" /\ FExp(dt, e) = FExpMax(dt))

\* a double from sign, unbiased-to-double exponent field and the top 28 mantissa bits
PackF64(sign, exp11, m28) ==
    << 0, 0, 0, m28 % 256, (m28 \div 256) % 256, (m28 \div 65536) % 256,
       ((exp11 % 16) * 16) + ((m28 \div 16777216) % 16), (sign * 128) + (exp11 \div 16) >>

\* float32 -> Python float (a double): the widening conversion of .tolist()/.item()
F32ToF64(e) ==
    LET e8 == FExp("float32", e)
        m23 == (e[3] % 128) * 65536 + e[2] * 256 + e[1]
        exp11 == IF e8 = 255 THEN 2047
                 ELSE IF e8 = 0 THEN 0
                 ELSE e8 + 896
    IN  PackF64(FSign("float32", e), exp11, m23 * 32)

RECURSIVE Log2(_)
Log2(n) == IF n < 2 THEN 0 ELSE 1 + Log2(n \div 2)

\* int -> double, exact for |n| < 2^20
IntToF64(n) ==
    LET a == IF n < 0 THEN -n ELSE n
        ex == Log2(a)
    IN  IF a = 0 THEN << 0, 0, 0, 0, 0, 0, 0, 0 >>
        ELSE PackF64(IF n < 0 THEN 1 ELSE 0, 1023 + ex, (a - Pow2(ex)) * Pow2(28 - ex))

\* int64 element -> int, for |value| < 2^23 (the upper five bytes are sign extension)
Int64Value(e) ==
    LET low == e[1] + 256 * e[2] + 65536 * e[3]
    IN  IF e[8] >= 128 THEN low - 16777216 ELSE low

\* int -> int64 element, for |n| < 2^23
Int64Bytes(n) ==
    LET low == IF n < 0 THEN n + 16777216 ELSE n
        hi == IF n < 0 THEN 255 ELSE 0
    IN  << low % 256, (low \div 256) % 256, (low \div 65536) % 256, hi, hi, hi, hi, hi >>

Int16Value(e) ==
    LET u == e[1] + 256 * e[2] IN IF u >= 32768 THEN u - 65536 ELSE u

\* the Python object .tolist() / .astype('object') makes of one element
PyValue(dt, e) ==
    CASE dt = "float64" -> PyFloat(e)
      [] dt = "float32" -> PyFloat(F32ToF64(e))
      [] dt = "uint8" -> PyInt(e[1])
      [] dt = "int16" -> PyInt(Int16Value(e))
      [] dt = "int64" -> PyInt(Int64Value(e))
      [] dt = "bool" -> PyBool(e[1] # 0)
      [] dt = "datetime64[ms]" -> [k |-> "datetime", ms |-> Int64Value(e)]
      [] dt = "timedelta64[ms]" -> [k |-> "timedelta", tdms |-> Int64Value(e)]

\* np.nan stored into an element of a floating dtype
NanBytes(dt) ==
    IF dt = "float64" THEN << 0, 0, 0, 0, 0, 0, 248, 127 >> ELSE << 0, 0, 192, 127 >>

-----------------------------------------------------------------------------
(* ndarray helpers *)

Size(a) == Prod(a.shape)

C_CONTIGUOUS(a) == a.order = "C"

\* memory position (1-based) of the element at row-major position p
MemIndex(a, p) ==
    IF a.order = "C" THEN p
    ELSE LET r == a.shape[1]
             c == a.shape[2]
             i == (p - 1) \div c
             j == (p - 1) % c
         IN  j * r + i + 1

ElemAt(a, m) == SubSeq(a.data, (m - 1) * ItemSize(a.dtype) + 1, m * ItemSize(a.dtype))

\* the elements in row-major (logical) order
Elems(a) == [p \in 1..Size(a) |-> ElemAt(a, MemIndex(a, p))]

\* np.ascontiguousarray
ascontiguousarray(a) == [a EXCEPT !.order = "C", !.data = Flatten(Elems(a))]

\* nested lists of the row-major sequence xs for the given shape (ndarray.tolist)
RECURSIVE Nest(_, _)
Nest(xs, sh) ==
    IF sh = << >> THEN xs[1]
    ELSE LET n == Head(sh)
             w == Len(xs) \div n
         IN  PyList([i \in 1..n |-> Nest(SubSeq(xs, (i - 1) * w + 1, i * w), Tail(sh))])

tolist(a) == Nest([p \in 1..Size(a) |-> PyValue(a.dtype, Elems(a)[p])], a.shape)

-----------------------------------------------------------------------------
(* base64 *)

B64Chars ==
    << "A", "B", "C", "D", "E", "F", "G", "H", "I", "J", "K", "L", "M", "N", "O", "P",
       "Q", "R", "S", "T", "U", "V", "W", "X", "Y", "Z", "a", "b", "c", "d", "e", "f",
       "g", "h", "i", "j", "k", "l", "m", "n", "o", "p", "q", "r", "s", "t", "u", "v",
       "w", "x", "y", "z", "0", "1", "2", "3", "4", "5", "6", "7", "8", "9", "+", "/" >>

B64Char(n) == B64Chars[n + 1]
B64Index(c) == CHOOSE n \in 0..63 : B64Chars[n + 1] = c

\* base64.b64encode: three bytes -> four characters, '=' padding
RECURSIVE b64encode(_)
b64encode(bs) ==
    IF Len(bs) = 0 THEN << >>
    ELSE IF Len(bs) = 1
    THEN << B64Char(bs[1] \div 4), B64Char((bs[1] % 4) * 16), "=", "=" >>
    ELSE IF Len(bs) = 2
    THEN << B64Char(bs[1] \div 4), B64Char(((bs[1] % 4) * 16) + (bs[2] \div 16)),
            B64Char((bs[2] % 16) * 4), "=" >>
    ELSE << B64Char(bs[1] \div 4), B64Char(((bs[1] % 4) * 16) + (bs[2] \div 16)),
            B64Char(((bs[2] % 16) * 4) + (bs[3] \div 64)), B64Char(bs[3] % 64) >>
         \o b64encode(SubSeq(bs, 4, Len(bs)))

\* base64.b64decode of text over the base64 alphabet: four characters -> three
\* bytes; a length that is no multiple of four is binascii.Error (incorrect padding)
RECURSIVE B64DecodeQuads(_)
B64DecodeQuads(cs) ==
    IF Len(cs) = 0 THEN << >>
    ELSE LET s1 == B64Index(cs[1])
             s2 == B64Index(cs[2])
             b1 == (s1 * 4) + (s2 \div 16)
         IN  IF cs[3] = "=" THEN << b1 >>
             ELSE LET s3 == B64Index(cs[3])
                      b2 == ((s2 % 16) * 16) + (s3 \div 4)
                  IN  IF cs[4] = "=" THEN << b1, b2 >>
                      ELSE << b1, b2, ((s3 % 4) * 64) + B64Index(cs[4]) >>
                           \o B64DecodeQuads(SubSeq(cs, 5, Len(cs)))

b64decode(cs) ==
    IF Len(cs) % 4 # 0 THEN Raise("binascii.Error") ELSE [k |-> "bytes", raw |-> B64DecodeQuads(cs)]

B64Str(cs) == [k |-> "b64str", chars |-> cs]
PyShape(sh) == [k |-> "shape", dims |-> sh]

-----------------------------------------------------------------------------
(* the codec: src/bokeh/util/serialization.py *)

\* array.astype('object'): the row-major sequence of Python objects
astype_object(a) == [p \in 1..Size(a) |-> PyValue(a.dtype, Elems(a)[p])]

\* transformed[mask] = value
SetWhere(xs, m, v) == [p \in DOMAIN xs |-> IF m[p] THEN v ELSE xs[p]]

\* transform_array_to_list without its line 73 (the -Infinity substitution)
transform_array_to_list_no_neginf(array) ==
    LET dt == array.dtype
        es == Elems(array)
    IN  IF Kind(dt) \in {"u", "i", "f"} /\ AnyTrue([p \in DOMAIN es |-> ~isfinite(dt, es[p])])
        THEN LET t0 == astype_object(array)
                 t1 == SetWhere(t0, [p \in DOMAIN es |-> isnan(dt, es[p])], PyStr("NaN"))
                 t2 == SetWhere(t1, [p \in DOMAIN es |-> isposinf(dt, es[p])], PyStr("Infinity"))
             IN  Nest(t2, array.shape)
        ELSE tolist(array)

transform_array_to_list(array) ==
    LET dt == array.dtype
        es == Elems(array)
    IN  IF Kind(dt) \in {"u", "i", "f"} /\ AnyTrue([p \in DOMAIN es |-> ~isfinite(dt, es[p])])
        THEN LET t0 == astype_object(array)
                 t1 == SetWhere(t0, [p \in DOMAIN es |-> isnan(dt, es[p])], PyStr("NaN"))
                 t2 == SetWhere(t1, [p \in DOMAIN es |-> isposinf(dt, es[p])], PyStr("Infinity"))
                 t3 == SetWhere(t2, [p \in DOMAIN es |-> isneginf(dt, es[p])], PyStr("-Infinity"))
             IN  Nest(t3, array.shape)
        ELSE tolist(array)

encoding_disabled(array) ==
    IF ~use_binary_arrays THEN TRUE
    ELSE IF array.dtype \notin array_types THEN TRUE
    ELSE Prod(array.shape) < binary_array_cutoff

encode_base64_dict(array) ==
    IF ~C_CONTIGUOUS(array) THEN Raise("BufferError")
    ELSE PyDict([key \in {"__ndarray__", "shape", "dtype"} |->
                  CASE key = "__ndarray__" -> B64Str(b64encode(array.data))
                    [] key = "shape" -> PyShape(array.shape)
                    [] key = "dtype" -> PyStr(array.dtype)])

\* np.fromstring(b64, dtype=...)
fromstring(bytes, dt) ==
    IF ~KnownDtype(dt) THEN Raise("TypeError")
    ELSE IF Len(bytes) % ItemSize(dt) # 0 THEN Raise("ValueError")
    ELSE NdArray(dt, << Len(bytes) \div ItemSize(dt) >>, "C", bytes)

\* array.reshape(shape)
reshape(a, sh) == IF Prod(sh) # Size(a) THEN Raise("ValueError") ELSE [a EXCEPT !.shape = sh]

\* decode_base64_dict without lines 201-202 (the buffer is left linear)
decode_base64_dict_no_reshape(data) ==
    IF {"__ndarray__", "shape", "dtype"} \ DOMAIN data.entries # {} THEN Raise("KeyError")
    ELSE LET b64 == b64decode(data.entries["__ndarray__"].chars)
         IN  IF IsRaise(b64) THEN b64
             ELSE fromstring(b64.raw, data.entries["dtype"].sval)

decode_base64_dict(data) ==
    IF {"__ndarray__", "shape", "dtype"} \ DOMAIN data.entries # {} THEN Raise("KeyError")
    ELSE LET b64 == b64decode(data.entries["__ndarray__"].chars)
         IN  IF IsRaise(b64) THEN b64
             ELSE LET array == fromstring(b64.raw, data.entries["dtype"].sval)
                  IN  IF IsRaise(array) THEN array
                      ELSE IF Len(data.entries["shape"].dims) > 1
                      THEN reshape(array, data.entries["shape"].dims)
                      ELSE array

\* the row-major position stored at memory position m
LogicalOf(a, m) == CHOOSE p \in 1..Size(a) : MemIndex(a, p) = m

\* MaskedArray.filled(np.nan): a plain array, np.nan stored at the masked positions;
\* np.nan is not convertible to an integer or temporal dtype (TypeError)
filled_nan(a) ==
    LET plain == [a EXCEPT !.masked = FALSE, !.mask = << >>]
        fill == IF a.dtype = "bool" THEN << 1 >> ELSE NanBytes(a.dtype)
    IN  IF Kind(a.dtype) \notin {"f", "b"} THEN Raise("TypeError")
        ELSE IF ~AnyTrue(a.mask) THEN plain
        ELSE [plain EXCEPT !.data =
                Flatten([m \in 1..Size(a) |->
                           IF a.mask[LogicalOf(a, m)] THEN fill ELSE ElemAt(a, m)])]

serialize_array(array, force) ==
    LET a1 == IF array.masked THEN filled_nan(array) ELSE array
    IN  IF IsRaise(a1) THEN a1
        ELSE IF encoding_disabled(a1) \/ force THEN transform_array_to_list(a1)
        ELSE IF ~C_CONTIGUOUS(a1) THEN encode_base64_dict(ascontiguousarray(a1))
        ELSE encode_base64_dict(a1)

\* dt2001.astype('int64') == dt2001.astype('datetime64[ms]').astype('int64'):
\* false on every NumPy from 1.7 on (31 years against 978307200000 ms)
legacy_datetime64 == FALSE

\* obj.astype('datetime64[us]').astype('int64') (also timedelta64): from milliseconds
astype_us_int64(obj) ==
    [obj EXCEPT !.dtype = "int64",
                !.data = Flatten([m \in 1..Size(obj) |->
                                    Int64Bytes(Int64Value(ElemAt(obj, m)) * 1000)])]

\* obj.astype('int64')
astype_int64(obj) == [obj EXCEPT !.dtype = "int64"]

\* int64 array / d: a float64 array (d divides every element here)
truediv(a, d) ==
    [a EXCEPT !.dtype = "float64",
              !.data = Flatten([m \in 1..Size(a) |->
                                  IntToF64(Int64Value(ElemAt(a, m)) \div d)])]

transform_array(obj, force) ==
    IF Kind(obj.dtype) = "M"
    THEN IF legacy_datetime64
         THEN IF obj.dtype = "datetime64[ns]"
              THEN serialize_array(truediv(astype_int64(obj), 1000000), force)
              ELSE Raise("UnboundLocalError")
         ELSE serialize_array(truediv(astype_us_int64(obj), 1000), force)
    ELSE IF Kind(obj.dtype) = "m"
    THEN serialize_array(truediv(astype_us_int64(obj), 1000), force)
    ELSE serialize_array(obj, force)

transform_series(obj) == transform_array(obj.values, FALSE)

\* the module global is_numpy (numpy imported)
is_numpy == TRUE

\* the first exception among the results, or the results themselves
FirstRaise(rs) == rs[CHOOSE i \in DOMAIN rs : IsRaise(rs[i]) /\ \A j \in 1..(i - 1) : ~IsRaise(rs[j])]
Propagate(rs, ok) == IF \E i \in DOMAIN rs : IsRaise(rs[i]) THEN FirstRaise(rs) ELSE ok

\* lines 162-169: the sentinel of a non-finite Python float
SanitizeFloat(item) ==
    IF isnan("float64", item.fbits) THEN PyStr("NaN")
    ELSE IF isposinf("float64", item.fbits) THEN PyStr("Infinity")
    ELSE IF isneginf("float64", item.fbits) THEN PyStr("-Infinity")
    ELSE item

\* traverse_data appending a nested list/tuple as it is (line 161 without the recursion)
traverse_data_shallow(datum, isnp, use_numpy) ==
    IF ~IsSeq(datum) THEN Raise("TypeError")
    ELSE LET xs == Items(datum)
         IN  IF (isnp /\ use_numpy) /\ \A i \in DOMAIN xs : IsArray(xs[i])
             THEN LET rs == [i \in DOMAIN xs |-> transform_array(xs[i], FALSE)]
                  IN  Propagate(rs, PyList(rs))
             ELSE LET rs == [i \in DOMAIN xs |->
                               IF xs[i].k = "float" THEN SanitizeFloat(xs[i])
                               ELSE xs[i]]
                  IN  Propagate(rs, PyList(rs))

\* datum is iterated: a scalar payload (int, float, bool, None) is a TypeError
RECURSIVE traverse_data(_, _, _)
traverse_data(datum, isnp, use_numpy) ==
    IF ~IsSeq(datum) THEN Raise("TypeError")
    ELSE LET xs == Items(datum)
         IN  IF (isnp /\ use_numpy) /\ \A i \in DOMAIN xs : IsArray(xs[i])
             THEN LET rs == [i \in DOMAIN xs |-> transform_array(xs[i], FALSE)]
                  IN  Propagate(rs, PyList(rs))
             ELSE LET rs == [i \in DOMAIN xs |->
                               IF IsSeq(xs[i]) THEN traverse_data(xs[i], is_numpy, TRUE)
                               ELSE IF xs[i].k = "float" THEN SanitizeFloat(xs[i])
                               ELSE xs[i]]
                  IN  Propagate(rs, PyList(rs))

\* data: a function from column names to payloads
transform_column_source_data(data) ==
    LET keys == DOMAIN data
        rs == [key \in keys |->
                 IF data[key].k = "series" THEN transform_series(data[key])
                 ELSE IF IsArray(data[key]) THEN transform_array(data[key], FALSE)
                 ELSE traverse_data(data[key], is_numpy, TRUE)]
    IN  IF \E key \in keys : IsRaise(rs[key])
        THEN rs[CHOOSE key \in keys : IsRaise(rs[key])]
        ELSE PyDict(rs)

-----------------------------------------------------------------------------
(* What each call leaves in the caller's object.  The functions bind new objects to *)
(* their local names and write only into those.                                     *)

\* lines 70-74 write into `transformed`, the copy astype('object') made
transform_array_to_list_arg(array) == array

\* line 98 binds what filled() returns: a new array, or (nothing masked) the masked
\* array's own buffer; line 102 binds a copy
serialize_array_arg(array, force) ==
    LET a1 == IF array.masked THEN filled_nan(array) ELSE array
        shared == ~array.masked \/ ~AnyTrue(array.mask)
    IN  IF IsRaise(a1) \/ ~shared THEN array
        ELSE IF encoding_disabled(a1) \/ force
        THEN [array EXCEPT !.data = transform_array_to_list_arg(a1).data]
        ELSE array

\* lines 135-139 compute new arrays from obj
transform_array_arg(obj, force) ==
    IF Kind(obj.dtype) \in {"M", "m"} THEN obj ELSE serialize_array_arg(obj, force)

\* traverse_data substituting the sentinels in datum itself (datum[i] = 'NaN')
RECURSIVE traverse_data_arg_in_place(_)
traverse_data_arg_in_place(datum) ==
    IF ~IsSeq(datum) THEN datum
    ELSE LET xs == Items(datum)
             ys == [i \in DOMAIN xs |->
                      IF IsSeq(xs[i]) THEN traverse_data_arg_in_place(xs[i])
                      ELSE IF xs[i].k = "float" THEN SanitizeFloat(xs[i])
                      ELSE xs[i]]
         IN  IF datum.k = "list" THEN PyList(ys) ELSE datum

\* lines 158-171 append to datum_copy; line 164 rebinds the local item
RECURSIVE traverse_data_arg(_)
traverse_data_arg(datum) ==
    IF ~IsSeq(datum) THEN datum
    ELSE LET xs == Items(datum)
             ys == [i \in DOMAIN xs |->
                      IF IsArray(xs[i]) /\ \A j \in DOMAIN xs : IsArray(xs[j])
                      THEN transform_array_arg(xs[i], FALSE)
                      ELSE IF IsSeq(xs[i]) THEN traverse_data_arg(xs[i])
                      ELSE xs[i]]
         IN  IF datum.k = "list" THEN PyList(ys) ELSE PyTuple(ys)

\* lines 178-185 store into data_copy
transform_column_source_data_arg(data) ==
    [key \in DOMAIN data |->
       IF data[key].k = "series"
       THEN [data[key] EXCEPT !.values = transform_array_arg(data[key].values, FALSE)]
       ELSE IF IsArray(data[key]) THEN transform_array_arg(data[key], FALSE)
       ELSE traverse_data_arg(data[key])]

IsEnvelope(v) == v.k = "dict" /\ "__ndarray__" \in DOMAIN v.entries

\* decode_column_data without lines 213-219 (a list is passed through)
decode_column_data_no_list_walk(data) ==
    LET keys == DOMAIN data
        rs == [key \in keys |->
                 IF data[key].k = "dict" /\ "__ndarray__" \in DOMAIN data[key].entries
                 THEN decode_base64_dict(data[key])
                 ELSE data[key]]
    IN  IF \E key \in keys : IsRaise(rs[key])
        THEN rs[CHOOSE key \in keys : IsRaise(rs[key])]
        ELSE PyDict(rs)

decode_column_data(data) ==
    LET keys == DOMAIN data
        rs == [key \in keys |->
                 LET v == data[key]
                 IN  IF IsEnvelope(v) THEN decode_base64_dict(v)
                     ELSE IF v.k = "list"
                     THEN LET els == [i \in DOMAIN v.items |->
                                        IF IsEnvelope(v.items[i])
                                        THEN decode_base64_dict(v.items[i])
                                        ELSE v.items[i]]
                          IN  Propagate(els, PyList(els))
                     ELSE v]
    IN  IF \E key \in keys : IsRaise(rs[key])
        THEN rs[CHOOSE key \in keys : IsRaise(rs[key])]
        ELSE PyDict(rs)

-----------------------------------------------------------------------------
(* Inputs *)

F64_One == << 0, 0, 0, 0, 0, 0, 240, 63 >>
F64_NaN == << 0, 0, 0, 0, 0, 0, 248, 127 >>
F64_PosInf == << 0, 0, 0, 0, 0, 0, 240, 127 >>
F64_NegInf == << 0, 0, 0, 0, 0, 0, 240, 255 >>
F32_TwoAndHalf == << 0, 0, 32, 64 >>
F32_NaN == << 0, 0, 192, 127 >>
F32_NegInf == << 0, 0, 128, 255 >>

ElemPalette(dt) ==
    CASE dt = "float64" -> {F64_One, F64_NaN, F64_PosInf, F64_NegInf}
      [] dt = "float32" -> {F32_TwoAndHalf, F32_NaN, F32_NegInf}
      [] dt = "uint8" -> {<< 7 >>, << 255 >>}
      [] dt = "int16" -> {<< 254, 255 >>, << 1, 0 >>}
      [] dt = "int64" -> {Int64Bytes(-1), Int64Bytes(3)}
      [] dt = "bool" -> {<< 0 >>, << 1 >>}
      [] dt = "datetime64[ms]" -> {Int64Bytes(1), Int64Bytes(2)}
      [] dt = "timedelta64[ms]" -> {Int64Bytes(-5), Int64Bytes(1)}

Dtypes ==
    {"float64", "float32", "uint8", "int16", "int64", "bool",
     "datetime64[ms]", "timedelta64[ms]"}

Shapes == {<< >>} \cup {<< n >> : n \in 1..MaxLen} \cup {<< 1, 2 >>, << 2, 2 >>}

\* a transposed view (Fortran order) differs from C order only with two real axes
Orders(sh) == IF Len(sh) = 2 /\ sh[1] > 1 /\ sh[2] > 1 THEN {"C", "F"} ELSE {"C"}

PlainArrays ==
    UNION { UNION { { NdArray(dt, sh, ord, Flatten(es)) :
                        es \in [1..Prod(sh) -> ElemPalette(dt)], ord \in Orders(sh) } :
                    sh \in Shapes } : dt \in Dtypes }

\* masked arrays: the first element masked
MaskedArrays ==
    { [a EXCEPT !.masked = TRUE, !.mask = [p \in 1..Size(a) |-> p = 1]] : a \in PlainArrays }

Cutoffs == {1, 3}

Untouched == [k |-> "none"]

-----------------------------------------------------------------------------
(* Single arrays: transform_array, transform_array_to_list, the binary codec *)

IdInit ==
    /\ simple_ids = TRUE
    /\ _simple_id = 1000
    /\ pc = << >>
    /\ tmp = << >>
    /\ new_id = << >>
    /\ calls = << >>
    /\ returned = << >>

InitArr ==
    /\ use_binary_arrays \in BOOLEAN
    /\ binary_array_cutoff \in Cutoffs
    /\ force_list \in BOOLEAN
    /\ numpy_flag = TRUE
    /\ arg \in PlainArrays \cup MaskedArrays
    /\ op = << >>
    /\ result = Untouched
    /\ result2 = Untouched
    /\ IdInit

TransformArray ==
    /\ op = << >>
    /\ result' = transform_array(arg, force_list)
    /\ op' = << "transform_array" >>
    /\ UNCHANGED << use_binary_arrays, binary_array_cutoff, force_list, numpy_flag, arg, result2 >>
    /\ UNCHANGED idVars

\* the list path on its own; its caller (serialize_array) hands it filled arrays only
ToList ==
    /\ op = << >>
    /\ ~arg.masked
    /\ result' = transform_array_to_list(arg)
    /\ op' = << "transform_array_to_list" >>
    /\ UNCHANGED << use_binary_arrays, binary_array_cutoff, force_list, numpy_flag, arg, result2 >>
    /\ UNCHANGED idVars

\* the encoder on its own; its caller hands it plain C-contiguous arrays only
Encode ==
    /\ op = << >>
    /\ ~arg.masked
    /\ C_CONTIGUOUS(arg)
    /\ result' = encode_base64_dict(arg)
    /\ op' = << "encode_base64_dict" >>
    /\ UNCHANGED << use_binary_arrays, binary_array_cutoff, force_list, numpy_flag, arg, result2 >>
    /\ UNCHANGED idVars

\* decoding an envelope that an earlier step produced
Decode ==
    /\ Len(op) = 1
    /\ IsEnvelope(result)
    /\ result2' = decode_base64_dict(result)
    /\ op' = Append(op, "decode_base64_dict")
    /\ UNCHANGED << use_binary_arrays, binary_array_cutoff, force_list, numpy_flag, arg, result >>
    /\ UNCHANGED idVars

NextArr == TransformArray \/ ToList \/ Encode \/ Decode

SpecArr == InitArr /\ [][NextArr]_vars

-----------------------------------------------------------------------------
(* Envelopes from the wire: decode_base64_dict *)

WireBytes == {0, 255}
WireDtypes == {"uint8", "int16", "float32"}
WireShapes == {<< >>, << 1 >>, << 2 >>, << 3 >>, << 4 >>, << 1, 2 >>, << 2, 1 >>, << 2, 2 >>, << 1, 3 >>}

Envelope(payload, sh, dt) ==
    PyDict([key \in {"__ndarray__", "shape", "dtype"} |->
              CASE key = "__ndarray__" -> B64Str(payload)
                [] key = "shape" -> PyShape(sh)
                [] key = "dtype" -> PyStr(dt)])

InitDec ==
    /\ use_binary_arrays = TRUE
    /\ binary_array_cutoff = 2
    /\ force_list = FALSE
    /\ numpy_flag = TRUE
    /\ \E n \in 1..MaxPayload : \E bs \in [1..n -> WireBytes] :
         \E sh \in WireShapes : \E dt \in WireDtypes :
            arg = Envelope(b64encode(bs), sh, dt)
    /\ op = << >>
    /\ result = Untouched
    /\ result2 = Untouched
    /\ IdInit

DecodeEnvelope ==
    /\ op = << >>
    /\ result' = decode_base64_dict(arg)
    /\ op' = << "decode_base64_dict" >>
    /\ UNCHANGED << use_binary_arrays, binary_array_cutoff, force_list, numpy_flag, arg, result2 >>
    /\ UNCHANGED idVars

NextDec == DecodeEnvelope

SpecDec == InitDec /\ [][NextDec]_vars

-----------------------------------------------------------------------------
(* Properties of the single-array operations *)

\* the leaves of a nested list, in order
RECURSIVE Leaves(_)
Leaves(x) ==
    IF x.k = "list" THEN Flatten([i \in DOMAIN x.items |-> Leaves(x.items[i])]) ELSE << x >>

\* the dimensions of a nested list (a bare scalar has none)
RECURSIVE ListShape(_)
ListShape(x) ==
    IF x.k # "list" THEN << >>
    ELSE IF Len(x.items) = 0 THEN << 0 >>
    ELSE << Len(x.items) >> \o ListShape(x.items[1])

\* every sub-list of a level has the same dimensions
RECURSIVE Regular(_)
Regular(x) ==
    x.k = "list" =>
        \A i \in DOMAIN x.items :
            Regular(x.items[i]) /\ ListShape(x.items[i]) = ListShape(x.items[1])

\* the bit patterns of the inputs, classified by hand
NaNPatterns == {F64_NaN, F32_NaN}
PosInfPatterns == {F64_PosInf}
NegInfPatterns == {F64_NegInf, F32_NegInf}
AsDouble(e) ==
    CASE e = F64_One -> F64_One
      [] e = F32_TwoAndHalf -> << 0, 0, 0, 0, 0, 0, 4, 64 >>

ExpectedLeaf(e) ==
    IF e \in NaNPatterns THEN PyStr("NaN")
    ELSE IF e \in PosInfPatterns THEN PyStr("Infinity")
    ELSE IF e \in NegInfPatterns THEN PyStr("-Infinity")
    ELSE PyFloat(AsDouble(e))

\* the dtype an array has when it reaches serialize_array
NormalizedDtype(dt) == IF Kind(dt) \in {"M", "m"} THEN "float64" ELSE dt

\* C1: for every array with a whitelisted dtype and at least cutoff elements,
\* decode_base64_dict(encode_base64_dict(array)) is an array with the same shape,
\* the same dtype and the same bytes as the original.
C1_RoundTrip ==
    (/\ op = << "encode_base64_dict", "decode_base64_dict" >>
     /\ arg.dtype \in array_types
     /\ Size(arg) >= binary_array_cutoff)
    => (/\ IsArray(result2)
        /\ result2.shape = arg.shape
        /\ result2.dtype = arg.dtype
        /\ result2.data = arg.data)

\* C2: transform_array returns an ordered sequence whenever binary arrays are off,
\* force_list is set, the normalized dtype is outside the whitelist or the element
\* count is below the cutoff, and a Binary Envelope record with keys __ndarray__,
\* shape and dtype in every other case.
C2_ListOrEnvelope ==
    (op = << "transform_array" >> /\ ~IsRaise(result))
    => IF \/ ~use_binary_arrays
          \/ force_list
          \/ NormalizedDtype(arg.dtype) \notin array_types
          \/ Size(arg) < binary_array_cutoff
       THEN result.k = "list"
       ELSE result.k = "dict" /\ DOMAIN result.entries = {"__ndarray__", "shape", "dtype"}

\* C4: on the list path, a floating array is exported with its own shape, holding
\* "NaN" / "Infinity" / "-Infinity" exactly at the NaN / +Inf / -Inf positions and
\* the original number at every finite position.
C4_ListPathSentinels ==
    (op = << "transform_array_to_list" >> /\ Kind(arg.dtype) = "f")
    => (/\ Regular(result)
        /\ ListShape(result) = arg.shape
        /\ Len(Leaves(result)) = Size(arg)
        /\ \A p \in 1..Size(arg) : Leaves(result)[p] = ExpectedLeaf(Elems(arg)[p]))

C4_Witness ==
    /\ op = << "transform_array_to_list" >>
    /\ arg.dtype = "float64"
    /\ arg.shape = << 2, 2 >>
    /\ arg.order = "F"
    /\ Leaves(result) = << PyStr("NaN"), PyFloat(F64_One), PyStr("-Infinity"), PyStr("Infinity") >>

\* C5: decode_base64_dict raises whenever the payload length is no multiple of the
\* dtype's element size or the product of the recorded shape differs from the number
\* of decoded elements.
C5_DecodeRejects ==
    LET n == Len(B64DecodeQuads(arg.entries["__ndarray__"].chars))
        size == ItemSize(arg.entries["dtype"].sval)
    IN  (op = << "decode_base64_dict" >>
         /\ (n % size # 0 \/ Prod(arg.entries["shape"].dims) # n \div size))
        => IsRaise(result)

-----------------------------------------------------------------------------
(* Nested lists and tuples of scalars: traverse_data *)

FloatScalars == {PyFloat(F64_One), PyFloat(F64_NaN), PyFloat(F64_PosInf)}
Scalars ==
    FloatScalars \cup {PyFloat(F64_NegInf), PyInt(3), PyBool(TRUE), PyStr("x"), PyNone}

SeqsUpTo(S, lo, hi) == UNION { [1..n -> S] : n \in lo..hi }

Level1 == UNION { {PyList(xs), PyTuple(xs)} : xs \in SeqsUpTo(FloatScalars, 0, 2) }
Level2 == UNION { {PyList(xs), PyTuple(xs)} : xs \in SeqsUpTo(Scalars \cup Level1, 1, 2) }

RECURSIVE WrapN(_, _)
WrapN(x, n) == IF n = 0 THEN x ELSE PyList(<< WrapN(x, n - 1) >>)

InitTrav ==
    /\ use_binary_arrays = TRUE
    /\ binary_array_cutoff = 1
    /\ force_list = FALSE
    /\ numpy_flag \in BOOLEAN
    /\ \E x \in Level2 : \E n \in 0..MaxWrap : arg = WrapN(x, n)
    /\ op = << >>
    /\ result = Untouched
    /\ result2 = Untouched
    /\ IdInit

Traverse ==
    /\ op = << >>
    /\ result' = traverse_data(arg, is_numpy, numpy_flag)
    /\ op' = << "traverse_data" >>
    /\ UNCHANGED << use_binary_arrays, binary_array_cutoff, force_list, numpy_flag, arg, result2 >>
    /\ UNCHANGED idVars

NextTrav == Traverse

SpecTrav == InitTrav /\ [][NextTrav]_vars

\* the nesting of a structure: every leaf blanked, lists and tuples alike
RECURSIVE Skeleton(_)
Skeleton(x) ==
    IF IsSeq(x) THEN PyList([i \in DOMAIN Items(x) |-> Skeleton(Items(x)[i])]) ELSE PyNone

\* the scalars of a structure of lists and tuples, in order
RECURSIVE SeqLeaves(_)
SeqLeaves(x) ==
    IF IsSeq(x) THEN Flatten([i \in DOMAIN Items(x) |-> SeqLeaves(Items(x)[i])]) ELSE << x >>

SentinelOf(leaf) ==
    IF leaf = PyFloat(F64_NaN) THEN PyStr("NaN")
    ELSE IF leaf = PyFloat(F64_PosInf) THEN PyStr("Infinity")
    ELSE IF leaf = PyFloat(F64_NegInf) THEN PyStr("-Infinity")
    ELSE leaf

\* C6: traverse_data of a nested list/tuple structure of scalars returns a structure
\* of the same nesting and lengths, each non-finite float replaced by its sentinel
\* string and every other value unchanged in its position.
C6_TraverseSanitizes ==
    (op = << "traverse_data" >>)
    => (/\ ~IsRaise(result)
        /\ Skeleton(result) = Skeleton(arg)
        /\ Len(SeqLeaves(result)) = Len(SeqLeaves(arg))
        /\ \A i \in 1..Len(SeqLeaves(arg)) :
              SeqLeaves(result)[i] = SentinelOf(SeqLeaves(arg)[i]))

\* [[1.0, NaN], [1.0, Infinity]] becomes [[1.0, "NaN"], [1.0, "Infinity"]]
C6_Witness ==
    /\ op = << "traverse_data" >>
    /\ arg = PyList(<< PyList(<< PyFloat(F64_One), PyFloat(F64_NaN) >>),
                       PyList(<< PyFloat(F64_One), PyFloat(F64_PosInf) >>) >>)
    /\ result = PyList(<< PyList(<< PyFloat(F64_One), PyStr("NaN") >>),
                          PyList(<< PyFloat(F64_One), PyStr("Infinity") >>) >>)

-----------------------------------------------------------------------------
(* make_id: threads interleaving at bytecode boundaries *)

SimpleIdStart == 1000
Threads == 1..NumThreads
UUIDs == {"uuid-a", "uuid-b", "uuid-c"}

\* str(new_id)
str(x) == IF x.k = "int" THEN ToString(x.ival) ELSE x.uuid

InitId ==
    /\ use_binary_arrays = TRUE
    /\ binary_array_cutoff = 1
    /\ force_list = FALSE
    /\ numpy_flag = TRUE
    /\ arg = Untouched
    /\ op = << >>
    /\ result = Untouched
    /\ result2 = Untouched
    /\ simple_ids \in BOOLEAN
    /\ _simple_id = SimpleIdStart
    /\ pc = [t \in Threads |-> "idle"]
    /\ tmp = [t \in Threads |-> 0]
    /\ new_id = [t \in Threads |-> PyNone]
    /\ calls = [t \in Threads |-> 0]
    /\ returned = << >>

\* a thread calls make_id()
Call(t) ==
    /\ pc[t] = "idle"
    /\ calls[t] < MaxCalls
    /\ calls' = [calls EXCEPT ![t] = @ + 1]
    /\ pc' = [pc EXCEPT ![t] = "branch"]
    /\ UNCHANGED << simple_ids, _simple_id, tmp, new_id, returned >>
    /\ UNCHANGED codecVars

\* line 55: if settings.simple_ids(False)
Branch(t) ==
    /\ pc[t] = "branch"
    /\ pc' = [pc EXCEPT ![t] = IF simple_ids THEN "load" ELSE "uuid"]
    /\ UNCHANGED << simple_ids, _simple_id, tmp, new_id, calls, returned >>
    /\ UNCHANGED codecVars

\* line 56, _simple_id += 1: LOAD_GLOBAL _simple_id
Load(t) ==
    /\ pc[t] = "load"
    /\ tmp' = [tmp EXCEPT ![t] = _simple_id]
    /\ pc' = [pc EXCEPT ![t] = "store"]
    /\ UNCHANGED << simple_ids, _simple_id, new_id, calls, returned >>
    /\ UNCHANGED codecVars

\* line 56, _simple_id += 1: INPLACE_ADD, STORE_GLOBAL _simple_id
Store(t) ==
    /\ pc[t] = "store"
    /\ _simple_id' = tmp[t] + 1
    /\ pc' = [pc EXCEPT ![t] = "read"]
    /\ UNCHANGED << simple_ids, tmp, new_id, calls, returned >>
    /\ UNCHANGED codecVars

\* line 57: new_id = _simple_id
Read(t) ==
    /\ pc[t] = "read"
    /\ new_id' = [new_id EXCEPT ![t] = PyInt(_simple_id)]
    /\ pc' = [pc EXCEPT ![t] = "ret"]
    /\ UNCHANGED << simple_ids, _simple_id, tmp, calls, returned >>
    /\ UNCHANGED codecVars

\* line 59: new_id = uuid.uuid4()
Uuid(t) ==
    /\ pc[t] = "uuid"
    /\ \E u \in UUIDs : new_id' = [new_id EXCEPT ![t] = [k |-> "uuid", uuid |-> u]]
    /\ pc' = [pc EXCEPT ![t] = "ret"]
    /\ UNCHANGED << simple_ids, _simple_id, tmp, calls, returned >>
    /\ UNCHANGED codecVars

\* line 60: return str(new_id)
Return(t) ==
    /\ pc[t] = "ret"
    /\ returned' = Append(returned, str(new_id[t]))
    /\ pc' = [pc EXCEPT ![t] = "idle"]
    /\ UNCHANGED << simple_ids, _simple_id, tmp, new_id, calls >>
    /\ UNCHANGED codecVars

NextId ==
    \E t \in Threads :
        Call(t) \/ Branch(t) \/ Load(t) \/ Store(t) \/ Read(t) \/ Uuid(t) \/ Return(t)

SpecId == InitId /\ [][NextId]_vars

AllReturned == \A t \in Threads : pc[t] = "idle" /\ calls[t] = MaxCalls

\* C10: with simple_ids enabled no two make_id calls return the same ID, also when
\* the calls of several threads interleave, and _simple_id ends at 1000 plus the
\* number of calls made.
C10_UniqueIds ==
    simple_ids =>
        (/\ \A i, j \in 1..Len(returned) : i # j => returned[i] # returned[j]
         /\ AllReturned => _simple_id = SimpleIdStart + (NumThreads * MaxCalls))

-----------------------------------------------------------------------------
(* Column sets: transform_column_source_data, then decode_column_data *)

Series(a) == [k |-> "series", values |-> a]

A_f64_3 == NdArray("float64", << 3 >>, "C", F64_One \o F64_NaN \o F64_NegInf)
A_f64_1 == NdArray("float64", << 1 >>, "C", F64_One)
A_f64_0d == NdArray("float64", << >>, "C", F64_One)
A_f32_22 == NdArray("float32", << 2, 2 >>, "F",
                    F32_TwoAndHalf \o F32_NaN \o F32_NegInf \o F32_TwoAndHalf)
A_u8_3 == NdArray("uint8", << 3 >>, "C", << 7, 255, 7 >>)
A_i64_3 == NdArray("int64", << 3 >>, "C", Int64Bytes(-1) \o Int64Bytes(3) \o Int64Bytes(3))
A_dt_3 == NdArray("datetime64[ms]", << 3 >>, "C",
                  Int64Bytes(1) \o Int64Bytes(2) \o Int64Bytes(1))
A_masked_f64 == MaskedArray("float64", << 3 >>, "C", F64_One \o F64_One \o F64_PosInf,
                            << FALSE, TRUE, FALSE >>)
A_masked_i64 == MaskedArray("int64", << 1 >>, "C", Int64Bytes(3), << TRUE >>)

L_ints == PyList(<< PyInt(1), PyInt(2), PyInt(3) >>)
L_nested == PyList(<< PyList(<< PyFloat(F64_One), PyFloat(F64_NaN) >>),
                      PyTuple(<< PyFloat(F64_One), PyFloat(F64_PosInf) >>) >>)
L_arrays == PyList(<< A_f64_3, A_f64_1 >>)
L_mixed == PyList(<< A_f64_3, PyFloat(F64_One) >>)
L_deep_arrays == PyList(<< PyList(<< A_u8_3 >>), PyList(<< PyStr("x"), PyNone >>) >>)
L_empty == PyList(<< >>)
L_json_nested == PyList(<< PyList(<< PyInt(1), PyFloat(F64_One) >>), PyStr("x"), PyNone >>)

ColumnPayloads ==
    {A_f64_3, A_f64_1, A_f64_0d, A_f32_22, A_u8_3, A_i64_3, A_dt_3, A_masked_f64,
     A_masked_i64, Series(A_f64_3), L_ints, L_nested, L_arrays, L_mixed, L_deep_arrays,
     L_empty, L_json_nested}

ColumnSets == [{"a"} -> ColumnPayloads] \cup [{"a", "b"} -> ColumnPayloads]

InitCol ==
    /\ use_binary_arrays \in BOOLEAN
    /\ binary_array_cutoff \in Cutoffs
    /\ force_list = FALSE
    /\ numpy_flag = TRUE
    /\ arg \in ColumnSets
    /\ op = << >>
    /\ result = Untouched
    /\ result2 = Untouched
    /\ IdInit

TransformColumns ==
    /\ op = << >>
    /\ result' = transform_column_source_data(arg)
    /\ arg' = transform_column_source_data_arg(arg)
    /\ op' = << "transform_column_source_data" >>
    /\ UNCHANGED << use_binary_arrays, binary_array_cutoff, force_list, numpy_flag, result2 >>
    /\ UNCHANGED idVars

DecodeColumns ==
    /\ op = << "transform_column_source_data" >>
    /\ ~IsRaise(result)
    /\ result2' = decode_column_data(result.entries)
    /\ op' = Append(op, "decode_column_data")
    /\ UNCHANGED << use_binary_arrays, binary_array_cutoff, force_list, numpy_flag, arg, result >>
    /\ UNCHANGED idVars

NextCol == TransformColumns \/ DecodeColumns

SpecCol == InitCol /\ [][NextCol]_vars

\* representable in JSON: strings, numbers, booleans, null, sequences, string-keyed
\* mappings; no array object, no NaN / Infinity / -Infinity float
RECURSIVE JsonLegal(_)
JsonLegal(x) ==
    CASE x.k \in {"none", "int", "bool", "str", "b64str", "shape"} -> TRUE
      [] x.k = "float" -> x.fbits \notin {F64_NaN, F64_PosInf, F64_NegInf}
      [] x.k = "list" -> \A i \in DOMAIN x.items : JsonLegal(x.items[i])
      [] x.k = "tuple" -> \A i \in DOMAIN x.titems : JsonLegal(x.titems[i])
      [] x.k = "dict" -> \A key \in DOMAIN x.entries : JsonLegal(x.entries[key])
      [] OTHER -> FALSE

\* C3: the result of transform_column_source_data holds only strings, numbers,
\* booleans, null, sequences and string-keyed mappings: no raw array and no
\* NaN / Infinity / -Infinity float at any position.
C3_OutputJsonLegal ==
    (op = << "transform_column_source_data" >> /\ ~IsRaise(result)) => JsonLegal(result)

\* two arrays with the same dtype, shape and elements (whatever their memory order)
SameArray(x, y) ==
    /\ IsArray(x) /\ IsArray(y)
    /\ x.dtype = y.dtype /\ x.shape = y.shape /\ Elems(x) = Elems(y)

\* a list that is JSON already: lists of finite scalars, at any depth
RECURSIVE PureJson(_)
PureJson(x) ==
    CASE x.k \in {"none", "int", "bool", "str"} -> TRUE
      [] x.k = "float" -> x.fbits \notin {F64_NaN, F64_PosInf, F64_NegInf}
      [] x.k = "list" -> \A i \in DOMAIN x.items : PureJson(x.items[i])
      [] OTHER -> FALSE

\* the columns C7 speaks of: ordinary arrays (no mask, no temporal dtype) and
\* lists that are JSON already
ClaimColumn(v) ==
    \/ IsArray(v) /\ ~v.masked /\ Kind(v.dtype) \notin {"M", "m"}
    \/ v.k = "list" /\ PureJson(v)

C8_InputUnchanged ==
    [][(op' = << "transform_column_source_data" >>)
         => (/\ arg' = arg
             /\ ~IsRaise(result') => DOMAIN result'.entries = DOMAIN arg)]_vars

C8_Witness ==
    /\ op = << "transform_column_source_data" >>
    /\ DOMAIN arg = {"a", "b"}
    /\ arg["a"] = A_masked_f64
    /\ arg["b"] = L_nested
    /\ ~use_binary_arrays
    /\ result.entries["a"] = PyList(<< PyFloat(F64_One), PyStr("NaN"), PyStr("Infinity") >>)
    /\ result.entries["b"].items[1] = PyList(<< PyFloat(F64_One), PyStr("NaN") >>)

-----------------------------------------------------------------------------
(* Column data from the wire: decode_column_data *)

E_u8 == Envelope(b64encode(<< 7, 255 >>), << 2 >>, "uint8")
E_f32_12 == Envelope(b64encode(F32_TwoAndHalf \o F32_NaN), << 1, 2 >>, "float32")

WirePayloads ==
    {E_u8, E_f32_12,
     PyList(<< E_u8, PyInt(1) >>),
     PyList(<< PyList(<< E_u8 >>), E_f32_12 >>),
     PyList(<< PyInt(1), PyStr("x") >>),
     PyList(<< PyDict([foo |-> E_u8]) >>),
     PyList(<< >>),
     PyTuple(<< E_u8 >>),
     PyDict([foo |-> PyInt(1)]),
     PyInt(5), PyStr("s"), PyNone}

InitWire ==
    /\ use_binary_arrays = TRUE
    /\ binary_array_cutoff = 1
    /\ force_list = FALSE
    /\ numpy_flag = TRUE
    /\ arg \in [{"a"} -> WirePayloads] \cup [{"a", "b"} -> WirePayloads]
    /\ op = << >>
    /\ result = Untouched
    /\ result2 = Untouched
    /\ IdInit

DecodeWire ==
    /\ op = << >>
    /\ result' = decode_column_data(arg)
    /\ op' = << "decode_column_data" >>
    /\ UNCHANGED << use_binary_arrays, binary_array_cutoff, force_list, numpy_flag, arg, result2 >>
    /\ UNCHANGED idVars

NextWire == DecodeWire

SpecWire == InitWire /\ [][NextWire]_vars

\* the arrays the two envelopes stand for, written out by hand
ExpectedDecoded(e) ==
    CASE e = E_u8 -> NdArray("uint8", << 2 >>, "C", << 7, 255 >>)
      [] e = E_f32_12 -> NdArray("float32", << 1, 2 >>, "C", F32_TwoAndHalf \o F32_NaN)

\* C9: decode_column_data decodes an envelope exactly when it is a column's value or
\* a direct element of a column's list; an envelope nested deeper and every value
\* that is neither an envelope nor a list is returned unchanged; a list keeps its
\* length and order.
C9_ShallowDecode ==
    (op = << "decode_column_data" >>)
    => (/\ ~IsRaise(result)
        /\ DOMAIN result.entries = DOMAIN arg
        /\ \A key \in DOMAIN arg :
              LET v == arg[key]
                  r == result.entries[key]
              IN  IF IsEnvelope(v) THEN r = ExpectedDecoded(v)
                  ELSE IF v.k = "list"
                  THEN /\ r.k = "list"
                       /\ Len(r.items) = Len(v.items)
                       /\ \A i \in DOMAIN v.items :
                             IF IsEnvelope(v.items[i])
                             THEN r.items[i] = ExpectedDecoded(v.items[i])
                             ELSE r.items[i] = v.items[i]
                  ELSE r = v)

C9_Witness ==
    /\ op = << "decode_column_data" >>
    /\ DOMAIN arg = {"a", "b"}
    /\ arg["a"] = PyList(<< PyList(<< E_u8 >>), E_f32_12 >>)
    /\ arg["b"] = E_u8
    /\ result.entries["a"].items[1] = PyList(<< E_u8 >>)
    /\ IsArray(result.entries["a"].items[2])
    /\ IsArray(result.entries["b"])

=============================================================================
